---- MODULE Spec2Model ----
(***************************************************************************)
(* HybridObject (package/cpp/jsi/RNFHybridObject.h): a jsi::HostObject     *)
(* whose members are declared lazily by loadHybridMethods() and are read,  *)
(* written and enumerated by several jsi::Runtime instances, each on its   *)
(* own thread.                                                             *)
(*                                                                         *)
(* The header holds the member data, the register* templates and the      *)
(* createHybridMethod / callMethod templates.  The bodies of get, set,     *)
(* getPropertyNames, ensureInitialized and isRuntimeAlive, the JSIConverter*)
(* and the WorkletRuntimeRegistry are declared or included only; they are  *)
(* modelled from the design specification (sections 4.1 - 4.5, 5, 7).      *)
(***************************************************************************)
EXTENDS Integers, Sequences, FiniteSets, TLC

(***************************************************************************)
(* Bounds of the model.                                                    *)
(***************************************************************************)
\* Longest loadHybridMethods() body, counted in register* calls.
MaxDecls == 3
\* Background runtime instances created over one run.
MaxBg == 2
\* Addresses at which a background jsi::Runtime can be allocated.
NumAddrs == 2
\* Callbacks a scheduling collaborator holds at one time.
MaxScheduled == 1
\* Intrinsic operations and callable invocations the scripts issue over one run.
MaxCalls == 2
\* Most positional arguments a script passes to a callable.
MaxArgs == 1
\* Surfaces the native view creates over the life of one FilamentView.
MaxSurfaces == 2
\* Changes of the renderCallback prop over the life of one FilamentView.
MaxPropUpdates == 1

(***************************************************************************)
(* Values.                                                                 *)
(***************************************************************************)
\* Member names a subclass declares.
DeclNames == {"getAge", "name"}

\* Names a script asks for: the declared ones and one that no object has.
Names == DeclNames \cup {"missing"}

\* The type of the native field that backs property n (the ReturnType of its
\* getter, the ValueType of its setter).
FieldType(n) == IF n = "getAge" THEN "number" ELSE "string"

NativeValues(t) == IF t = "number" THEN {0, 1} ELSE {"", "x"}

DefaultValue(t) == IF t = "number" THEN 0 ELSE ""

Undefined == [type |-> "undefined"]

\* jsi::Value: a tagged value of the scripting runtime.
ScriptValue(t, v) == [type |-> t, v |-> v]

\* The values a script passes to a write.
ScriptInputs == {ScriptValue("number", 1), ScriptValue("string", "x")}

\* JSIConverter<T>::toJSI
toJSI(t, v) == ScriptValue(t, v)

\* A conversion that only checks that a value was supplied.
CanConvertAny(t, sv) == sv.type # "undefined"

\* JSIConverter<T>::fromJSI fails when the value's runtime type is not T.
CanConvert(t, sv) == sv.type = t

\* A conversion that drops the value and yields T's default.
fromJSIDefault(t, sv) == DefaultValue(t)

\* JSIConverter<T>::fromJSI
fromJSI(t, sv) == sv.v

(***************************************************************************)
(* Runtimes.  Instance 0 is the main runtime; 1..MaxBg are background      *)
(* runtimes in order of creation.  A jsi::Runtime* is an address: the main *)
(* runtime lives at address 0, a background runtime at one of 1..NumAddrs. *)
(***************************************************************************)
MainRuntime == 0

BgRuntimes == 1..MaxBg

Runtimes == {MainRuntime} \cup BgRuntimes

MainAddr == 0

BgAddrs == 1..NumAddrs

Addrs == {MainAddr} \cup BgAddrs

NoThread == -1

NullAddr == -1

(***************************************************************************)
(* std::unordered_map<std::string, V> as a function on a subset of Names.  *)
(***************************************************************************)
EmptyMap == [x \in {} |-> 0]

\* unordered_map::count(k) > 0
Has(m, k) == k \in DOMAIN m

\* m[k] = v
Put(m, k, v) == [x \in (DOMAIN m) \cup {k} |-> IF x = k THEN v ELSE m[x]]

(***************************************************************************)
(* loadHybridMethods(): the subclass's hook, a fixed straight-line body of *)
(* register* calls.  A call that throws is caught inside the hook, which   *)
(* then goes on with its next call.                                        *)
(***************************************************************************)
Decl ==
    [kind : {"method"}, name : DeclNames, override : BOOLEAN]
        \cup [kind : {"getter", "setter"}, name : DeclNames, override : {FALSE}]

Progs == UNION {[1..k -> Decl] : k \in 0..MaxDecls}

NoDecl == [kind |-> "none"]

\* The hook of an example object: one method and one getter/setter pair.
UserProg ==
    << [kind |-> "method", name |-> "getAge", override |-> FALSE],
       [kind |-> "getter", name |-> "name", override |-> FALSE],
       [kind |-> "setter", name |-> "name", override |-> FALSE] >>

VARIABLES
    didLoadMethods,   \* _didLoadMethods
    mutex,            \* _mutex: the thread that holds it, or NoThread
    methods,          \* _methods
    getters,          \* _getters
    setters,          \* _setters
    functionCache,    \* _functionCache: address -> name -> jsi::Function
    creationRuntime,  \* _creationRuntime
    hookProg,         \* the body of loadHybridMethods()
    hookPos,          \* per thread: the register* calls its hook run has made
    loadCount,        \* invocations of loadHybridMethods() so far
    lastDecl,         \* the latest register* call and how it ended
    pc,               \* per runtime thread: where it is in get/set/getPropertyNames
    op,               \* per runtime thread: the intrinsic operation in progress
    ret,              \* per runtime thread: what the operation returns
    invoked,          \* per runtime thread: handlers the operation has invoked
    calls,            \* intrinsic operations issued so far
    created,          \* per (instance, name): jsi::Functions created for it
    field,            \* the native fields behind the properties
    written,          \* per name: the script value its setter was last invoked with
    alive,            \* runtime instances that exist
    addrOf,           \* instance -> its address
    nextId,           \* the next background instance
    registered,       \* WorkletRuntimeRegistry: the Liveness Set
    guardLog,         \* per instance: the latest register/unregister call
    scheduled,        \* callbacks held by the scheduling collaborator
    lastFire,         \* the latest firing of a scheduled callback
    viewPhase,        \* FilamentView: "constructed", "mounted" or "unmounted"
    isComponentMounted,      \* this.isComponentMounted
    isSurfaceAlive,          \* this.isSurfaceAlive.value
    swapChain,               \* this.swapChain: a swap chain, or NoChain
    renderCallbackListener,  \* this.renderCallbackListener: a token, or NoToken
    latestToken,             \* this.latestToken
    surfaceListeners, \* surfaceCreated/DestroyedListener are registered
    viewReady,        \* onViewReady: "none", "finding" or "done"
    surface,          \* the native surface exists
    surfacesMade,     \* surfaces the native view has created
    events,           \* surface events not yet delivered to the JS thread
    released,         \* per swap chain: calls of release()
    nextChain,        \* the next swap chain the engine creates
    engineChain,      \* the argument of the latest engine.setSwapChain
    cleanupCalls,     \* callers of cleanupResources since that setSwapChain
    listeners,        \* choreographer: the frame callback listeners, by token
    running,          \* choreographer: started and not stopped
    upd,              \* per token: the updateRenderCallback call
    surf,             \* per call: the onSurfaceCreated call
    nextSurf,         \* the next onSurfaceCreated call
    workletQ,         \* the worklets passed to runAsync that have not run
    overlapped,       \* an updateRenderCallback call began while another was pending
    propUpdates,      \* renderCallback prop changes so far
    lastFrame         \* the latest run of a frame callback: "none" before the
                      \* first, "beginFrame" or "invalid" (lines 96-104)

registryVars == <<didLoadMethods, methods, getters, setters, creationRuntime>>

hookVars == <<hookProg, hookPos, loadCount, lastDecl>>

threadVars == <<pc, op, ret, invoked, calls>>

cacheVars == <<functionCache, created>>

runtimeVars == <<alive, addrOf, nextId, registered, guardLog>>

schedVars == <<scheduled, lastFire>>

nativeVars == <<field, written>>

objectVars ==
    <<registryVars, hookVars, threadVars, cacheVars, runtimeVars, schedVars,
      mutex, nativeVars>>

componentVars ==
    <<viewPhase, isComponentMounted, isSurfaceAlive, swapChain,
      renderCallbackListener, latestToken, surfaceListeners, viewReady, propUpdates>>

surfaceVars == <<surface, surfacesMade, events>>

engineVars == <<released, nextChain, engineChain, cleanupCalls>>

choreographerVars == <<listeners, running, lastFrame>>

asyncVars == <<upd, surf, nextSurf, workletQ, overlapped>>

viewVars == <<componentVars, surfaceVars, engineVars, choreographerVars, asyncVars>>

vars == <<objectVars, viewVars>>

(***************************************************************************)
(* The register* templates.                                                *)
(***************************************************************************)
\* The closure createHybridMethod returns for the at-th call of the run-th
\* run of the hook.
createHybridMethod(run, at, d) == [run |-> run, at |-> at, kind |-> d.kind, name |-> d.name]

\* registerHybridMethod throws std::runtime_error: without override, the name
\* is a property already, or a method already.
registerHybridMethodThrows(m, g, s, name, override) ==
    \/ ~override /\ (Has(g, name) \/ Has(s, name))
    \/ ~override /\ Has(m, name)

\* A registerHybridGetter that checks its own namespace only.
registerHybridGetterThrowsOwn(m, g, s, name) == Has(g, name)

\* registerHybridGetter throws std::runtime_error: the name is a getter
\* already, or a method.
registerHybridGetterThrows(m, g, s, name) ==
    \/ Has(g, name)
    \/ Has(m, name)

\* registerHybridSetter throws std::runtime_error: the name is a setter
\* already, or a method.
registerHybridSetterThrows(m, g, s, name) ==
    \/ Has(s, name)
    \/ Has(m, name)

\* A register* whose throw comes after the assignment to its map.
AfterThrowInserted(map, name, f) == Put(map, name, f)

\* The map of a register* call that throws: the throw precedes the assignment
\* `_methods[name] = ...` (or _getters, _setters), which is never reached.
AfterThrow(map, name, f) == map

\* What a register* call finds registered under the name.
Registered(name) ==
    [method |-> Has(methods, name), getter |-> Has(getters, name), setter |-> Has(setters, name)]

\* The hook run of thread t is at a call d.
AtDecl(t, d) ==
    /\ pc[t] = "loading"
    /\ hookPos[t] < Len(hookProg)
    /\ d = hookProg[hookPos[t] + 1]

DeclDone(t, d, ok) ==
    /\ hookPos' = [hookPos EXCEPT ![t] = @ + 1]
    /\ lastDecl' = [decl |-> d, before |-> Registered(d.name), ok |-> ok]
    /\ UNCHANGED <<hookProg, loadCount>>

registerHybridMethod(t) ==
    \E d \in Decl :
        /\ AtDecl(t, d)
        /\ d.kind = "method"
        /\ IF registerHybridMethodThrows(methods, getters, setters, d.name, d.override)
           THEN /\ DeclDone(t, d, FALSE)
                /\ methods' = AfterThrow(methods, d.name,
                                       createHybridMethod(loadCount, hookPos[t] + 1, d))
           ELSE /\ DeclDone(t, d, TRUE)
                /\ methods' = Put(methods, d.name, createHybridMethod(loadCount, hookPos[t] + 1, d))
        /\ UNCHANGED <<didLoadMethods, getters, setters, creationRuntime>>
        /\ UNCHANGED <<threadVars, cacheVars, runtimeVars, schedVars, mutex, nativeVars>>
        /\ UNCHANGED viewVars

registerHybridGetter(t) ==
    \E d \in Decl :
        /\ AtDecl(t, d)
        /\ d.kind = "getter"
        /\ IF registerHybridGetterThrows(methods, getters, setters, d.name)
           THEN /\ DeclDone(t, d, FALSE)
                /\ getters' = AfterThrow(getters, d.name,
                                       createHybridMethod(loadCount, hookPos[t] + 1, d))
           ELSE /\ DeclDone(t, d, TRUE)
                /\ getters' = Put(getters, d.name, createHybridMethod(loadCount, hookPos[t] + 1, d))
        /\ UNCHANGED <<didLoadMethods, methods, setters, creationRuntime>>
        /\ UNCHANGED <<threadVars, cacheVars, runtimeVars, schedVars, mutex, nativeVars>>
        /\ UNCHANGED viewVars

registerHybridSetter(t) ==
    \E d \in Decl :
        /\ AtDecl(t, d)
        /\ d.kind = "setter"
        /\ IF registerHybridSetterThrows(methods, getters, setters, d.name)
           THEN /\ DeclDone(t, d, FALSE)
                /\ setters' = AfterThrow(setters, d.name,
                                       createHybridMethod(loadCount, hookPos[t] + 1, d))
           ELSE /\ DeclDone(t, d, TRUE)
                /\ setters' = Put(setters, d.name, createHybridMethod(loadCount, hookPos[t] + 1, d))
        /\ UNCHANGED <<didLoadMethods, methods, getters, creationRuntime>>
        /\ UNCHANGED <<threadVars, cacheVars, runtimeVars, schedVars, mutex, nativeVars>>
        /\ UNCHANGED viewVars

(***************************************************************************)
(* The Liveness Set (WorkletRuntimeRegistry).                              *)
(***************************************************************************)
\* register(identity)
registerRuntime(S, id) == S \cup {id}

\* An unregister that forgets to remove the identity.
unregisterRuntimeKeeps(S, id) == S

\* unregister(identity): a no-op for an identity that is not registered.
unregisterRuntime(S, id) == S \ {id}

\* isAlive(identity): the main runtime is alive for the process lifetime.
IsAlive(id) == id = MainRuntime \/ id \in registered

\* The instance that lives at address a now.
Occupants(a) == {r \in alive : addrOf[r] = a}

\* The addresses the allocator has handed out so far.
UsedAddrs == {addrOf[r] : r \in 1..(nextId - 1)}

\* The addresses a new jsi::Runtime can be allocated at: one freed by a
\* destroyed runtime, or a fresh one.  Fresh addresses are interchangeable;
\* the lowest stands for them.
FreeAddrs ==
    {a \in BgAddrs : a \in UsedAddrs /\ Occupants(a) = {}}
        \cup {a \in BgAddrs : a \notin UsedAddrs /\ \A b \in BgAddrs : b < a => b \in UsedAddrs}

\* A background runtime starts at a free address and is registered once.
CreateRuntime(a) ==
    /\ nextId <= MaxBg
    /\ a \in FreeAddrs
    /\ alive' = alive \cup {nextId}
    /\ addrOf' = [addrOf EXCEPT ![nextId] = a]
    /\ registered' = registerRuntime(registered, nextId)
    /\ guardLog' = [guardLog EXCEPT ![nextId] = [last |-> "register", unregs |-> 0]]
    /\ nextId' = nextId + 1
    /\ UNCHANGED <<registryVars, hookVars, threadVars, cacheVars, schedVars, mutex, nativeVars>>
    /\ UNCHANGED viewVars

\* A background runtime that is not inside an operation is torn down for good
\* and unregistered; its address becomes free.
DestroyRuntime(r) ==
    /\ r \in alive
    /\ r # MainRuntime
    /\ pc[r] = "idle"
    /\ alive' = alive \ {r}
    /\ registered' = unregisterRuntime(registered, r)
    /\ guardLog' = [guardLog EXCEPT ![r] = [last |-> "unregister", unregs |-> 1]]
    /\ UNCHANGED <<addrOf, nextId>>
    /\ UNCHANGED <<registryVars, hookVars, threadVars, cacheVars, schedVars, mutex, nativeVars>>
    /\ UNCHANGED viewVars

\* unregister called again for a runtime that is gone.
UnregisterAgain(r) ==
    /\ r \in BgRuntimes
    /\ r \notin alive
    /\ guardLog[r].last = "unregister"
    /\ guardLog[r].unregs < 2
    /\ registered' = unregisterRuntime(registered, r)
    /\ guardLog' = [guardLog EXCEPT ![r].unregs = 2]
    /\ UNCHANGED <<alive, addrOf, nextId>>
    /\ UNCHANGED <<registryVars, hookVars, threadVars, cacheVars, schedVars, mutex, nativeVars>>
    /\ UNCHANGED viewVars

(***************************************************************************)
(* The three intrinsic operations.  Each takes _mutex, runs                *)
(* ensureInitialized and looks the name up.                                *)
(***************************************************************************)
NoOp == [kind |-> "none"]

NoRet == [type |-> "none"]

\* The arguments of an operation: get(name), set(name, value),
\* getPropertyNames().  All three operations begin alike; which one runs and
\* with what arguments is read once the object is initialized.
Args(kind) ==
    IF kind = "get" THEN [kind : {"get"}, name : Names, value : {Undefined}]
    ELSE IF kind = "set" THEN [kind : {"set"}, name : Names, value : ScriptInputs]
    ELSE {[kind |-> "enumerate"]}

\* A runtime calls get, set or getPropertyNames on the object.
Call(t) ==
    /\ t \in alive
    /\ pc[t] = "idle"
    /\ calls < MaxCalls
    /\ calls' = calls + 1
    /\ pc' = [pc EXCEPT ![t] = "lock"]
    /\ UNCHANGED <<op, ret, invoked>>
    /\ UNCHANGED <<registryVars, hookVars, cacheVars, runtimeVars, schedVars, mutex, nativeVars>>
    /\ UNCHANGED viewVars

\* A mutex that excludes nobody.
MutexFreeAlways == TRUE

\* std::mutex: lock() returns only when no thread holds it.
MutexFree == mutex = NoThread

\* std::unique_lock lock(_mutex)
Lock(t) ==
    /\ pc[t] = "lock"
    /\ MutexFree
    /\ mutex' = t
    /\ pc' = [pc EXCEPT ![t] = "init"]
    /\ UNCHANGED <<op, ret, invoked, calls>>
    /\ UNCHANGED <<registryVars, hookVars, cacheVars, runtimeVars, schedVars, nativeVars>>
    /\ UNCHANGED viewVars

\* An ensureInitialized that does not read the flag.
MustLoadAlways == TRUE

\* ensureInitialized finds the flag unset and must run the hook.
MustLoad == ~didLoadMethods

\* ensureInitialized(runtime), up to the call of loadHybridMethods()
ensureInitialized(t) ==
    /\ pc[t] = "init"
    /\ IF MustLoad
       THEN /\ creationRuntime' = addrOf[t]
            /\ loadCount' = IF loadCount < 2 THEN loadCount + 1 ELSE loadCount
            /\ hookPos' = [hookPos EXCEPT ![t] = 0]
            /\ pc' = [pc EXCEPT ![t] = "loading"]
            /\ UNCHANGED <<hookProg, lastDecl>>
       ELSE /\ pc' = [pc EXCEPT ![t] = "lookup"]
            /\ UNCHANGED <<creationRuntime, hookVars>>
    /\ UNCHANGED <<didLoadMethods, methods, getters, setters>>
    /\ UNCHANGED <<op, ret, invoked, calls>>
    /\ UNCHANGED <<cacheVars, runtimeVars, schedVars, mutex, nativeVars>>
    /\ UNCHANGED viewVars

\* loadHybridMethods() has returned: ensureInitialized sets the flag.
ensureInitializedDone(t) ==
    /\ pc[t] = "loading"
    /\ hookPos[t] = Len(hookProg)
    /\ didLoadMethods' = TRUE
    /\ pc' = [pc EXCEPT ![t] = "lookup"]
    /\ UNCHANGED <<methods, getters, setters, creationRuntime>>
    /\ UNCHANGED <<op, ret, invoked, calls>>
    /\ UNCHANGED <<hookVars, cacheVars, runtimeVars, schedVars, mutex, nativeVars>>
    /\ UNCHANGED viewVars

\* A lock that is still held when the handler is invoked.
UnlockNever(t) == mutex' = mutex

\* The lock guard goes out of scope.
Unlock(t) == mutex' = IF mutex = t THEN NoThread ELSE mutex

\* A cache keyed by the name alone.
CacheKeyByName(t, name) == <<MainAddr, name>>

\* The key of _functionCache: the runtime's address, then the name.
CacheKey(t, name) == <<addrOf[t], name>>

CacheHas(key) == Has(functionCache[key[1]], key[2])

CacheGet(key) == functionCache[key[1]][key[2]]

CachePut(key, f) == [functionCache EXCEPT ![key[1]] = Put(@, key[2], f)]

\* A cached jsi::Function is found and need not be created.
CacheHit(key) == CacheHas(key)

\* The operation of thread t is at its lookup, called with arguments o.
AtLookup(t, o) ==
    /\ pc[t] = "lookup"
    /\ op' = [op EXCEPT ![t] = o]

\* get: the name is a method; the callable comes from the cache, created on a miss.
getMethod(t) ==
    \E o \in Args("get") :
        /\ AtLookup(t, o)
        /\ Has(methods, o.name)
        /\ LET key == CacheKey(t, o.name)
               f == [rt |-> t, name |-> o.name, fn |-> methods[o.name]]
           IN  IF CacheHit(key)
               THEN /\ ret' = [ret EXCEPT ![t] = [type |-> "function", v |-> CacheGet(key), cached |-> TRUE]]
                    /\ UNCHANGED cacheVars
               ELSE /\ functionCache' = CachePut(key, f)
                    /\ created' = [created EXCEPT ![<<t, o.name>>] = IF @ < 2 THEN @ + 1 ELSE @]
                    /\ ret' = [ret EXCEPT ![t] = [type |-> "function", v |-> f, cached |-> FALSE]]
        /\ Unlock(t)
        /\ pc' = [pc EXCEPT ![t] = "ret"]
        /\ UNCHANGED <<invoked, calls>>
        /\ UNCHANGED <<registryVars, hookVars, runtimeVars, schedVars, nativeVars>>
        /\ UNCHANGED viewVars

\* get: the name is a getter; the mutex is released and the getter is invoked.
getGetter(t) ==
    \E o \in Args("get") :
        /\ AtLookup(t, o)
        /\ Has(getters, o.name)
        /\ Unlock(t)
        /\ pc' = [pc EXCEPT ![t] = "invoke"]
        /\ UNCHANGED <<ret, invoked, calls>>
        /\ UNCHANGED <<registryVars, hookVars, cacheVars, runtimeVars, schedVars, nativeVars>>
        /\ UNCHANGED viewVars

\* The getter's handler reads the native field; callMethod converts the result.
invokeGetter(t) ==
    /\ pc[t] = "invoke"
    /\ op[t].kind = "get"
    /\ invoked' = [invoked EXCEPT ![t] = Append(@, getters[op[t].name])]
    /\ ret' = [ret EXCEPT ![t] = toJSI(FieldType(op[t].name), field[op[t].name])]
    /\ pc' = [pc EXCEPT ![t] = "ret"]
    /\ UNCHANGED <<op, calls>>
    /\ UNCHANGED <<registryVars, hookVars, cacheVars, runtimeVars, schedVars, mutex, nativeVars>>
    /\ UNCHANGED viewVars

\* A lookup with operator[], which inserts a default HybridFunction on a miss.
LookupMissInserts(m, name) ==
    Put(m, name, [run |-> 0, at |-> 0, kind |-> "method", name |-> name])

\* A lookup with count(name) that misses leaves the map as it is.
LookupMiss(m, name) == m

\* get: the name is neither a method nor a getter.
getUndefined(t) ==
    \E o \in Args("get") :
        /\ AtLookup(t, o)
        /\ ~Has(methods, o.name)
        /\ ~Has(getters, o.name)
        /\ methods' = LookupMiss(methods, o.name)
        /\ ret' = [ret EXCEPT ![t] = Undefined]
        /\ Unlock(t)
        /\ pc' = [pc EXCEPT ![t] = "ret"]
        /\ UNCHANGED <<invoked, calls>>
        /\ UNCHANGED <<didLoadMethods, getters, setters, creationRuntime>>
        /\ UNCHANGED <<hookVars, cacheVars, runtimeVars, schedVars, nativeVars>>
        /\ UNCHANGED viewVars

\* set: the name is a setter; the value is converted, and the setter invoked
\* once the mutex is released.  A value of the wrong type is refused.
setSetter(t) ==
    \E o \in Args("set") :
        /\ AtLookup(t, o)
        /\ Has(setters, o.name)
        /\ IF CanConvert(FieldType(o.name), o.value)
           THEN /\ pc' = [pc EXCEPT ![t] = "invoke"]
                /\ UNCHANGED ret
           ELSE /\ pc' = [pc EXCEPT ![t] = "ret"]
                /\ ret' = [ret EXCEPT ![t] = [type |-> "error", v |-> "TypeConversionError"]]
        /\ Unlock(t)
        /\ UNCHANGED <<invoked, calls>>
        /\ UNCHANGED <<registryVars, hookVars, cacheVars, runtimeVars, schedVars, nativeVars>>
        /\ UNCHANGED viewVars

\* The setter's handler stores the converted value in the native field.
invokeSetter(t) ==
    /\ pc[t] = "invoke"
    /\ op[t].kind = "set"
    /\ invoked' = [invoked EXCEPT ![t] = Append(@, setters[op[t].name])]
    /\ field' = [field EXCEPT ![op[t].name] = fromJSI(FieldType(op[t].name), op[t].value)]
    /\ written' = [written EXCEPT ![op[t].name] = op[t].value]
    /\ ret' = [ret EXCEPT ![t] = Undefined]
    /\ pc' = [pc EXCEPT ![t] = "ret"]
    /\ UNCHANGED <<op, calls>>
    /\ UNCHANGED <<registryVars, hookVars, cacheVars, runtimeVars, schedVars, mutex>>
    /\ UNCHANGED viewVars

\* set: the name is no setter; the write is not handled by the object.
setUnhandled(t) ==
    \E o \in Args("set") :
        /\ AtLookup(t, o)
        /\ ~Has(setters, o.name)
        /\ ret' = [ret EXCEPT ![t] = [type |-> "unhandled"]]
        /\ Unlock(t)
        /\ pc' = [pc EXCEPT ![t] = "ret"]
        /\ UNCHANGED <<invoked, calls>>
        /\ UNCHANGED <<registryVars, hookVars, cacheVars, runtimeVars, schedVars, nativeVars>>
        /\ UNCHANGED viewVars

\* The names in the order an unordered_map of them is iterated: unspecified,
\* but the same each time.
NameOrder == <<"getAge", "name", "missing">>

\* The keys of one registry map, in iteration order.
KeysOf(m) == SelectSeq(NameOrder, LAMBDA n : Has(m, n))

\* An enumeration that lists the three maps one after the other.
PropertyNamesPerMap(m, g, s) == KeysOf(m) \o KeysOf(g) \o KeysOf(s)

\* The result of getPropertyNames: a std::vector of the registered names,
\* each listed once.
PropertyNames(m, g, s) ==
    SelectSeq(NameOrder, LAMBDA n : Has(m, n) \/ Has(g, n) \/ Has(s, n))

\* getPropertyNames: every registered name.
getPropertyNames(t) ==
    \E o \in Args("enumerate") :
        /\ AtLookup(t, o)
        /\ ret' = [ret EXCEPT ![t] =
                      [type |-> "names", v |-> PropertyNames(methods, getters, setters)]]
        /\ Unlock(t)
        /\ pc' = [pc EXCEPT ![t] = "ret"]
        /\ UNCHANGED <<invoked, calls>>
        /\ UNCHANGED <<registryVars, hookVars, cacheVars, runtimeVars, schedVars, nativeVars>>
        /\ UNCHANGED viewVars

(***************************************************************************)
(* Invocation of a jsi::Function made by createHybridMethod.               *)
(***************************************************************************)
\* The value User::getAge() returns.
Age == 23

\* Args... of the member function registered as method n: getAge takes
\* nothing; the other method takes one string and stores it.
ParamTypes(n) == IF n = "getAge" THEN << >> ELSE <<"string">>

\* ReturnType of the member function registered as method n.
ReturnType(n) == IF n = "getAge" THEN "number" ELSE "void"

\* The argument lists a script calls a callable with.
ArgLists == UNION {[1..k -> ScriptInputs] : k \in 0..MaxArgs}

\* callMethod reads args[Is] for every parameter without looking at count.
\* A position the caller supplied reads the argument; a position beyond
\* count reads outside the argument array: the process may crash, or the
\* read yields any value at all.
ReadArgs(n, args) ==
    LET ps == ParamTypes(n)
        reads == {a \in [1..Len(ps) -> ScriptInputs \cup {Undefined}] :
                     \A i \in 1..Len(ps) : i <= Len(args) => a[i] = args[i]}
    IN  {[crash |-> FALSE, a |-> a] : a \in reads}
            \cup (IF Len(args) < Len(ps) THEN {[crash |-> TRUE, a |-> << >>]} ELSE {})

\* A callMethod that returns undefined whatever the method returns.
callResultUndefined(n, r) == Undefined

\* callMethod: undefined for a void method, else the converted result.
callResult(n, r) ==
    IF ReturnType(n) = "void" THEN Undefined ELSE toJSI(ReturnType(n), r)

\* A script calls a jsi::Function it got from the object by an earlier get.
Invoke(t) ==
    /\ t \in alive
    /\ pc[t] = "idle"
    /\ calls < MaxCalls
    /\ \E n \in DeclNames, args \in ArgLists :
          /\ Has(functionCache[addrOf[t]], n)
          /\ op' = [op EXCEPT ![t] = [kind |-> "call", name |-> n, args |-> args,
                                      f |-> functionCache[addrOf[t]][n]]]
    /\ calls' = calls + 1
    /\ pc' = [pc EXCEPT ![t] = "callMethod"]
    /\ UNCHANGED <<ret, invoked>>
    /\ UNCHANGED <<registryVars, hookVars, cacheVars, runtimeVars, schedVars, mutex, nativeVars>>
    /\ UNCHANGED viewVars

\* The lambda of createHybridMethod runs callMethod: every argument is
\* converted with fromJSI, the member function is called, and its result is
\* converted back.  A conversion that fails throws before the call.
callMethod(t) ==
    /\ pc[t] = "callMethod"
    /\ LET n == op[t].f.name
           ps == ParamTypes(n)
       IN  \E r \in ReadArgs(n, op[t].args) :
               IF r.crash
               THEN /\ ret' = [ret EXCEPT ![t] = [type |-> "crash"]]
                    /\ UNCHANGED <<invoked, nativeVars>>
               ELSE IF \E i \in 1..Len(ps) : ~CanConvert(ps[i], r.a[i])
               THEN /\ ret' = [ret EXCEPT ![t] = [type |-> "error", v |-> "TypeConversionError"]]
                    /\ UNCHANGED <<invoked, nativeVars>>
               ELSE /\ invoked' = [invoked EXCEPT ![t] = Append(@, op[t].f.fn)]
                    /\ field' = IF Len(ps) = 0 THEN field
                                 ELSE [field EXCEPT ![n] = fromJSI(ps[1], r.a[1])]
                    /\ ret' = [ret EXCEPT ![t] = callResult(n, Age)]
                    /\ UNCHANGED written
    /\ pc' = [pc EXCEPT ![t] = "ret"]
    /\ UNCHANGED <<op, calls>>
    /\ UNCHANGED <<registryVars, hookVars, cacheVars, runtimeVars, schedVars, mutex>>
    /\ UNCHANGED viewVars

\* The operation returns to the script.
Return(t) ==
    /\ pc[t] = "ret"
    /\ pc' = [pc EXCEPT ![t] = "idle"]
    /\ op' = [op EXCEPT ![t] = NoOp]
    /\ ret' = [ret EXCEPT ![t] = NoRet]
    /\ invoked' = [invoked EXCEPT ![t] = <<>>]
    /\ UNCHANGED calls
    /\ UNCHANGED <<registryVars, hookVars, cacheVars, runtimeVars, schedVars, mutex, nativeVars>>
    /\ UNCHANGED viewVars

(***************************************************************************)
(* Callbacks scheduled against a background runtime.                       *)
(***************************************************************************)
NoFire == [kind |-> "none"]

\* A callback bound to a live background runtime is handed to the scheduler.
Schedule(r, n) ==
    /\ r \in alive
    /\ r # MainRuntime
    /\ Cardinality(scheduled) < MaxScheduled
    /\ scheduled' = scheduled \cup {[rt |-> r, name |-> n]}
    /\ UNCHANGED lastFire
    /\ UNCHANGED <<registryVars, hookVars, threadVars, cacheVars, runtimeVars, mutex, nativeVars>>
    /\ UNCHANGED viewVars

\* A firing that does not consult the Liveness Set.
MayFireAlways(cb) == TRUE

\* The callback may run: its runtime is still alive.
MayFire(cb) == IsAlive(cb.rt)

\* The callback fires: the handler runs if its runtime is alive; if not the
\* call is dropped and reported once on the non-fatal channel.
Fire(cb) ==
    /\ cb \in scheduled
    /\ scheduled' = scheduled \ {cb}
    /\ lastFire' =
          IF MayFire(cb)
          THEN [kind |-> "fire", cb |-> cb, unregistered |-> guardLog[cb.rt].last = "unregister",
                handler |-> TRUE, reports |-> 0, thrown |-> FALSE]
          ELSE [kind |-> "fire", cb |-> cb, unregistered |-> guardLog[cb.rt].last = "unregister",
                handler |-> FALSE, reports |-> 1, thrown |-> FALSE]
    /\ UNCHANGED <<registryVars, hookVars, threadVars, cacheVars, runtimeVars, mutex, nativeVars>>
    /\ UNCHANGED viewVars

(***************************************************************************)
(* The object after construction, with one main runtime.                   *)
(***************************************************************************)
\* The object after construction, with hook body p.
InitObject(p) ==
    /\ didLoadMethods = FALSE
    /\ mutex = NoThread
    /\ methods = EmptyMap
    /\ getters = EmptyMap
    /\ setters = EmptyMap
    /\ functionCache = [a \in Addrs |-> EmptyMap]
    /\ creationRuntime = NullAddr
    /\ hookProg = p
    /\ hookPos = [t \in Runtimes |-> 0]
    /\ loadCount = 0
    /\ lastDecl = NoDecl
    /\ field = [n \in Names |-> DefaultValue(FieldType(n))]
    /\ written = [n \in Names |-> Undefined]

\* The process at start: the main runtime only, no operation in progress.
InitProcess ==
    /\ pc = [t \in Runtimes |-> "idle"]
    /\ op = [t \in Runtimes |-> NoOp]
    /\ ret = [t \in Runtimes |-> NoRet]
    /\ invoked = [t \in Runtimes |-> <<>>]
    /\ calls = 0
    /\ created = [k \in Runtimes \X Names |-> 0]
    /\ alive = {MainRuntime}
    /\ addrOf = [t \in Runtimes |-> IF t = MainRuntime THEN MainAddr ELSE NullAddr]
    /\ nextId = 1
    /\ registered = {}
    /\ guardLog = [t \in Runtimes |-> [last |-> "none", unregs |-> 0]]
    /\ scheduled = {}
    /\ lastFire = NoFire

\* ---------------------------------------------------------------------------
\* FilamentView: the React component that ties a native surface, a swap chain
\* and the choreographer's frame callback together.
\* ---------------------------------------------------------------------------

\* this.swapChain === undefined, and the null a worklet returns.
NoChain == 0

\* this.renderCallbackListener === undefined.
NoToken == 0

\* updateRenderCallback is called once per swap chain that onSurfaceCreated
\* stores and once per change of the renderCallback prop.
MaxTokens == MaxSurfaces + MaxPropUpdates

Tokens == 1..MaxTokens

Chains == 1..MaxSurfaces

SurfCalls == 1..MaxSurfaces

NoUpd == [stage |-> "none", chain |-> NoChain, cleaned |-> FALSE]

NoSurf == [stage |-> "none", chain |-> NoChain, hit |-> FALSE]

\* A Listener.remove() that removes nothing.
removeNothing(ls, tok) == ls

\* Listener.remove(): the listener of token tok leaves the choreographer.
remove(ls, tok) == ls \ {tok}

\* A test of line 129 that takes every call for the latest.
IsLatestAlways(tok, latest) == TRUE

\* currentToken !== this.latestToken, negated.
IsLatest(tok, latest) == tok = latest

\* A cleanupResources without line 180: the released swap chain stays stored.
AfterReleaseKept(c) == c

\* this.swapChain = undefined, after the release.
AfterRelease(c) == NoChain

\* swapChain.release(), counted up to a second release.
release(rel, c) ==
    IF c = NoChain THEN rel
    ELSE [rel EXCEPT ![c] = IF @ < 2 THEN @ + 1 ELSE @]

\* swapChain.isValid: the swap chain has not been released.
isValid(c) == released[c] = 0

\* The updateRenderCallback calls whose promise continuation has not run.
Pending == {tok \in Tokens : upd[tok].stage \in {"queued", "registered"}}

\* The body of cleanupResources, called by caller.
cleanupResources(caller) ==
    /\ cleanupCalls' = cleanupCalls \cup {caller}
    /\ upd' = [tok \in Tokens |->
                  IF tok \in Pending THEN [upd[tok] EXCEPT !.cleaned = TRUE]
                  ELSE upd[tok]]
    /\ running' = FALSE
    /\ listeners' = remove(listeners, renderCallbackListener)
    /\ isSurfaceAlive' = FALSE
    /\ released' = release(released, swapChain)
    /\ swapChain' = AfterRelease(swapChain)

\* The body of updateRenderCallback up to its await, called with swap chain c,
\* on the listeners ls that are registered when it is called.
updateRenderCallback(c, ls) ==
    /\ latestToken' = latestToken + 1
    /\ workletQ' = Append(workletQ, [call |-> "updateRenderCallback", id |-> latestToken + 1])
    /\ listeners' = remove(ls, renderCallbackListener)
    /\ upd' = [upd EXCEPT ![latestToken + 1] =
                   [stage |-> "queued", chain |-> c, cleaned |-> FALSE]]
    /\ overlapped' = (overlapped \/ Pending # {})

\* The body of onSurfaceCreated up to its await.
onSurfaceCreated ==
    /\ isSurfaceAlive' = TRUE
    /\ workletQ' = Append(workletQ, [call |-> "onSurfaceCreated", id |-> nextSurf])
    /\ surf' = [surf EXCEPT ![nextSurf] = [NoSurf EXCEPT !.stage = "worklet"]]
    /\ nextSurf' = nextSurf + 1

componentDidMount ==
    /\ viewPhase = "constructed"
    /\ viewPhase' = "mounted"
    /\ isComponentMounted' = TRUE
    /\ UNCHANGED <<isSurfaceAlive, swapChain, renderCallbackListener, latestToken,
                   surfaceListeners, viewReady, propUpdates>>
    /\ UNCHANGED <<surfaceVars, engineVars, choreographerVars, asyncVars>>
    /\ UNCHANGED objectVars

\* The native view reports that it is ready: onViewReady runs up to its await.
onViewReady ==
    /\ viewPhase = "mounted"
    /\ viewReady = "none"
    /\ viewReady' = "finding"
    /\ UNCHANGED <<viewPhase, isComponentMounted, isSurfaceAlive, swapChain,
                   renderCallbackListener, latestToken, surfaceListeners, propUpdates>>
    /\ UNCHANGED <<surfaceVars, engineVars, choreographerVars, asyncVars>>
    /\ UNCHANGED objectVars

\* findFilamentView has resolved: the rest of onViewReady.
onViewReadyFound ==
    /\ viewReady = "finding"
    /\ viewReady' = "done"
    /\ IF ~isComponentMounted
       THEN UNCHANGED <<surfaceListeners, isSurfaceAlive, surf, nextSurf, workletQ>>
       ELSE /\ surfaceListeners' = TRUE
            /\ IF surface
               THEN onSurfaceCreated
               ELSE UNCHANGED <<isSurfaceAlive, surf, nextSurf, workletQ>>
    /\ UNCHANGED <<viewPhase, isComponentMounted, swapChain, renderCallbackListener,
                   latestToken, propUpdates>>
    /\ UNCHANGED <<surfaceVars, engineVars, choreographerVars, upd, overlapped>>
    /\ UNCHANGED objectVars

\* The native view creates its surface and tells the listener, if there is one.
SurfaceAppears ==
    /\ viewPhase = "mounted"
    /\ ~surface
    /\ surfacesMade < MaxSurfaces
    /\ surface' = TRUE
    /\ surfacesMade' = surfacesMade + 1
    /\ events' = IF surfaceListeners THEN Append(events, "created") ELSE events
    /\ UNCHANGED <<componentVars, engineVars, choreographerVars, asyncVars>>
    /\ UNCHANGED objectVars

\* The native view destroys its surface and tells the listener, if there is one.
SurfaceVanishes ==
    /\ surface
    /\ surface' = FALSE
    /\ events' = IF surfaceListeners THEN Append(events, "destroyed") ELSE events
    /\ UNCHANGED surfacesMade
    /\ UNCHANGED <<componentVars, engineVars, choreographerVars, asyncVars>>
    /\ UNCHANGED objectVars

\* The surfaceCreatedListener runs on the JS thread. A notification that was
\* dispatched before the listener was removed may still arrive.
DeliverCreated ==
    /\ events # <<>>
    /\ Head(events) = "created"
    /\ events' = Tail(events)
    /\ onSurfaceCreated
    /\ UNCHANGED <<viewPhase, isComponentMounted, swapChain, renderCallbackListener,
                   latestToken, surfaceListeners, viewReady, propUpdates>>
    /\ UNCHANGED <<surface, surfacesMade, engineVars, choreographerVars, upd, overlapped>>
    /\ UNCHANGED objectVars

\* The surfaceDestroyedListener runs on the JS thread: onSurfaceDestroyed.
onSurfaceDestroyed ==
    /\ events # <<>>
    /\ Head(events) = "destroyed"
    /\ events' = Tail(events)
    /\ cleanupResources("onSurfaceDestroyed")
    /\ surf' = [i \in SurfCalls |->
                   IF surf[i].stage = "worklet" THEN [surf[i] EXCEPT !.hit = TRUE]
                   ELSE surf[i]]
    /\ UNCHANGED <<viewPhase, isComponentMounted, renderCallbackListener,
                   latestToken, surfaceListeners, viewReady, propUpdates>>
    /\ UNCHANGED <<surface, surfacesMade, nextChain, engineChain, lastFrame,
                   nextSurf, workletQ, overlapped>>
    /\ UNCHANGED objectVars

\* The worklet of onSurfaceCreated runs on the worklet thread, which runs the
\* worklets it is given one at a time in the order of the runAsync calls.
createSwapChainForSurface(i) ==
    /\ workletQ # <<>>
    /\ Head(workletQ) = [call |-> "onSurfaceCreated", id |-> i]
    /\ workletQ' = Tail(workletQ)
    /\ IF isSurfaceAlive /\ surface
       THEN /\ surf' = [surf EXCEPT ![i] = [stage |-> "resolved", chain |-> nextChain,
                                           hit |-> FALSE]]
            /\ nextChain' = nextChain + 1
       ELSE /\ surf' = [surf EXCEPT ![i] = [stage |-> "resolved", chain |-> NoChain,
                                           hit |-> FALSE]]
            /\ UNCHANGED nextChain
    /\ UNCHANGED <<released, engineChain, cleanupCalls, nextSurf, upd, overlapped>>
    /\ UNCHANGED <<componentVars, surfaceVars, choreographerVars>>
    /\ UNCHANGED objectVars

\* The promise of onSurfaceCreated has resolved: the rest of onSurfaceCreated.
onSurfaceCreatedResolved(i) ==
    /\ surf[i].stage = "resolved"
    /\ IF surf[i].chain = NoChain
       THEN /\ isSurfaceAlive' = FALSE
            /\ surf' = [surf EXCEPT ![i].stage = "done"]
            /\ UNCHANGED <<swapChain, engineChain, cleanupCalls, latestToken,
                           listeners, upd, workletQ, overlapped>>
       ELSE /\ swapChain' = surf[i].chain
            /\ engineChain' = surf[i].chain
            /\ cleanupCalls' = {}
            /\ surf' = [surf EXCEPT ![i].stage = "done"]
            /\ updateRenderCallback(surf[i].chain, listeners)
            /\ UNCHANGED isSurfaceAlive
    /\ UNCHANGED <<viewPhase, isComponentMounted, renderCallbackListener,
                   surfaceListeners, viewReady, propUpdates>>
    /\ UNCHANGED <<surfaceVars, released, nextChain, running, lastFrame, nextSurf>>
    /\ UNCHANGED objectVars

\* The renderCallback prop changes.
componentDidUpdate ==
    /\ viewPhase = "mounted"
    /\ propUpdates < MaxPropUpdates
    /\ propUpdates' = propUpdates + 1
    /\ IF swapChain # NoChain
       THEN updateRenderCallback(swapChain, listeners)
       ELSE UNCHANGED <<latestToken, listeners, upd, workletQ, overlapped>>
    /\ UNCHANGED <<viewPhase, isComponentMounted, isSurfaceAlive, swapChain,
                   renderCallbackListener, surfaceListeners, viewReady>>
    /\ UNCHANGED <<surfaceVars, engineVars, running, lastFrame, surf, nextSurf>>
    /\ UNCHANGED objectVars

\* The worklet of updateRenderCallback runs on the worklet thread.
addFrameCallbackListener(tok) ==
    /\ workletQ # <<>>
    /\ Head(workletQ) = [call |-> "updateRenderCallback", id |-> tok]
    /\ workletQ' = Tail(workletQ)
    /\ upd' = [upd EXCEPT ![tok].stage = "registered"]
    /\ listeners' = listeners \cup {tok}
    /\ UNCHANGED <<running, lastFrame, surf, nextSurf, overlapped>>
    /\ UNCHANGED <<componentVars, surfaceVars, engineVars>>
    /\ UNCHANGED objectVars

\* The promise of updateRenderCallback has resolved: the rest of it.
updateRenderCallbackResolved(tok) ==
    /\ upd[tok].stage = "registered"
    /\ upd' = [upd EXCEPT ![tok].stage = "done", ![tok].cleaned = FALSE]
    /\ IF ~isComponentMounted \/ ~isSurfaceAlive
       THEN /\ listeners' = remove(listeners, tok)
            /\ UNCHANGED <<renderCallbackListener, running>>
       ELSE IF ~IsLatest(tok, latestToken)
       THEN /\ listeners' = remove(listeners, tok)
            /\ UNCHANGED <<renderCallbackListener, running>>
       ELSE /\ renderCallbackListener' = tok
            /\ running' = TRUE
            /\ UNCHANGED listeners
    /\ UNCHANGED <<viewPhase, isComponentMounted, isSurfaceAlive, swapChain,
                   latestToken, surfaceListeners, viewReady, propUpdates>>
    /\ UNCHANGED <<surfaceVars, engineVars, lastFrame, surf, nextSurf, workletQ, overlapped>>
    /\ UNCHANGED objectVars

\* A notification that was dispatched before the listener was removed is
\* dropped.
DropEvent ==
    /\ ~surfaceListeners
    /\ events # <<>>
    /\ events' = Tail(events)
    /\ UNCHANGED <<surface, surfacesMade>>
    /\ UNCHANGED <<componentVars, engineVars, choreographerVars, asyncVars>>
    /\ UNCHANGED objectVars

componentWillUnmount ==
    /\ viewPhase = "mounted"
    /\ viewPhase' = "unmounted"
    /\ isComponentMounted' = FALSE
    /\ surfaceListeners' = FALSE
    /\ cleanupResources("componentWillUnmount")
    /\ UNCHANGED <<renderCallbackListener, latestToken, viewReady, propUpdates>>
    /\ UNCHANGED <<surfaceVars, nextChain, engineChain, lastFrame>>
    /\ UNCHANGED <<surf, nextSurf, workletQ, overlapped>>
    /\ UNCHANGED objectVars

\* The choreographer calls the frame callback of listener tok.
Frame(tok) ==
    /\ running
    /\ tok \in listeners
    /\ lastFrame' = IF isValid(upd[tok].chain) THEN "beginFrame" ELSE "invalid"
    /\ UNCHANGED <<listeners, running>>
    /\ UNCHANGED <<componentVars, surfaceVars, engineVars, asyncVars>>
    /\ UNCHANGED objectVars

\* The view after its constructor.
InitView ==
    /\ viewPhase = "constructed"
    /\ isComponentMounted = FALSE
    /\ isSurfaceAlive = TRUE
    /\ swapChain = NoChain
    /\ renderCallbackListener = NoToken
    /\ latestToken = 0
    /\ surfaceListeners = FALSE
    /\ viewReady = "none"
    /\ propUpdates = 0
    /\ surface = FALSE
    /\ surfacesMade = 0
    /\ events = <<>>
    /\ released = [c \in Chains |-> 0]
    /\ nextChain = 1
    /\ engineChain = NoChain
    /\ cleanupCalls = {}
    /\ listeners = {}
    /\ running = FALSE
    /\ lastFrame = "none"
    /\ upd = [tok \in Tokens |-> NoUpd]
    /\ surf = [i \in SurfCalls |-> NoSurf]
    /\ nextSurf = 1
    /\ workletQ = <<>>
    /\ overlapped = FALSE

NextView ==
    \/ componentDidMount
    \/ onViewReady
    \/ onViewReadyFound
    \/ SurfaceAppears
    \/ SurfaceVanishes
    \/ DeliverCreated
    \/ onSurfaceDestroyed
    \/ \E i \in SurfCalls : createSwapChainForSurface(i)
    \/ \E i \in SurfCalls : onSurfaceCreatedResolved(i)
    \/ componentDidUpdate
    \/ \E tok \in Tokens : addFrameCallbackListener(tok)
    \/ \E tok \in Tokens : updateRenderCallbackResolved(tok)
    \/ componentWillUnmount
    \/ DropEvent
    \/ \E tok \in Tokens : Frame(tok)

\* The example object, shared by the main runtime and the background runtimes
\* that come and go.
Init ==
    /\ InitObject(UserProg)
    /\ InitProcess
    /\ InitView

\* An object with any hook body, used by the main runtime.
InitDeclare ==
    /\ \E p \in Progs : InitObject(p)
    /\ InitProcess
    /\ InitView

\* The object's own operations, on the thread of runtime t.
ObjectNext(t) ==
    \/ Call(t)
    \/ Lock(t)
    \/ ensureInitialized(t)
    \/ registerHybridMethod(t)
    \/ registerHybridGetter(t)
    \/ registerHybridSetter(t)
    \/ ensureInitializedDone(t)
    \/ getMethod(t)
    \/ getGetter(t)
    \/ invokeGetter(t)
    \/ getUndefined(t)
    \/ setSetter(t)
    \/ invokeSetter(t)
    \/ setUnhandled(t)
    \/ getPropertyNames(t)
    \/ Invoke(t)
    \/ callMethod(t)
    \/ Return(t)

\* The example object, used by runtimes that come and go.
Next ==
    \/ \E a \in BgAddrs : CreateRuntime(a)
    \/ \E r \in BgRuntimes : DestroyRuntime(r)
    \/ \E t \in Runtimes : ObjectNext(t)

Spec == Init /\ [][Next]_vars

\* The Liveness Set and the callbacks it guards, for runtimes that come and go.
NextGuard ==
    \/ \E a \in BgAddrs : CreateRuntime(a)
    \/ \E r \in BgRuntimes : DestroyRuntime(r)
    \/ \E r \in BgRuntimes : UnregisterAgain(r)
    \/ \E r \in BgRuntimes, n \in Names : Schedule(r, n)
    \/ \E cb \in scheduled : Fire(cb)

SpecGuard == Init /\ [][NextGuard]_vars

NextDeclare == ObjectNext(MainRuntime)

SpecDeclare == InitDeclare /\ [][NextDeclare]_vars

\* One FilamentView from its constructor to after its unmount, next to an
\* object nobody calls.
SpecView == Init /\ [][NextView]_vars

(***************************************************************************)
(* Reference definitions for the properties.                               *)
(***************************************************************************)
EmptyRegistry == [methods |-> EmptyMap, getters |-> EmptyMap, setters |-> EmptyMap]

TheRegistry == [methods |-> methods, getters |-> getters, setters |-> setters]

\* The registry after the first k calls of hook body p, run once by one
\* thread on a fresh object.
RECURSIVE AfterCalls(_, _)
AfterCalls(p, k) ==
    IF k = 0
    THEN EmptyRegistry
    ELSE LET r == AfterCalls(p, k - 1)
             d == p[k]
             fn == createHybridMethod(1, k, d)
         IN  CASE d.kind = "method" ->
                    IF registerHybridMethodThrows(r.methods, r.getters, r.setters, d.name, d.override)
                    THEN r
                    ELSE [r EXCEPT !.methods = Put(@, d.name, fn)]
               [] d.kind = "getter" ->
                    IF registerHybridGetterThrows(r.methods, r.getters, r.setters, d.name)
                    THEN r
                    ELSE [r EXCEPT !.getters = Put(@, d.name, fn)]
               [] d.kind = "setter" ->
                    IF registerHybridSetterThrows(r.methods, r.getters, r.setters, d.name)
                    THEN r
                    ELSE [r EXCEPT !.setters = Put(@, d.name, fn)]

\* The second call of the two-call hook body <<d1, d2>> succeeds.
SecondSucceeds(d1, d2) == AfterCalls(<<d1, d2>>, 2) # AfterCalls(<<d1, d2>>, 1)

\* The name is registered as a method, a getter or a setter.
IsRegistered(n) == Has(methods, n) \/ Has(getters, n) \/ Has(setters, n)

\* Thread t has finished an operation of the kind and is about to return.
Finished(t, kind) == pc[t] = "ret" /\ op[t].kind = kind

(***************************************************************************)
(* C1.  However many runtime threads issue the first get, set or           *)
(* getPropertyNames concurrently, loadHybridMethods() is invoked exactly   *)
(* once, and the registry it leaves is the one a single-threaded first     *)
(* access leaves.                                                          *)
(***************************************************************************)
C1_DeclaredOnce ==
    /\ loadCount <= 1
    /\ didLoadMethods =>
          /\ loadCount = 1
          /\ TheRegistry = AfterCalls(hookProg, Len(hookProg))
    /\ \A t \in Runtimes :
          pc[t] = "loading" => TheRegistry = AfterCalls(hookProg, hookPos[t])

\* Two runtimes each have an operation in flight, the hook has run, and a
\* thread that did not run it is at its lookup.
C1_Witness ==
    /\ didLoadMethods
    /\ Cardinality(alive) >= 2
    /\ \A t \in alive : pc[t] # "idle"
    /\ \E t \in Runtimes : pc[t] = "lookup" /\ addrOf[t] # creationRuntime

(***************************************************************************)
(* C2.  While one thread runs the declaration, every other thread that     *)
(* issues an operation waits for the mutex: no thread is at its name       *)
(* lookup, or past it, while the declaration has started and not finished. *)
(***************************************************************************)
C2_NoLookupDuringDeclaration ==
    \A t \in Runtimes :
        /\ pc[t] = "lookup" => didLoadMethods
        /\ pc[t] = "loading" =>
              /\ ~didLoadMethods
              /\ \A u \in Runtimes \ {t} : pc[u] \in {"idle", "lock"}

\* A thread is in the middle of the hook and another one waits for the mutex.
C2_Witness ==
    \E t, u \in Runtimes :
        /\ t # u
        /\ pc[t] = "loading"
        /\ hookPos[t] > 0
        /\ hookPos[t] < Len(hookProg)
        /\ pc[u] = "lock"

(***************************************************************************)
(* C3.  A callable created for one runtime instance is never returned by a *)
(* get made on behalf of another runtime instance.                         *)
(***************************************************************************)
C3_NeverAnotherRuntimesCallable ==
    \A t \in Runtimes :
        (Finished(t, "get") /\ ret[t].type = "function") => ret[t].v.rt = t

(***************************************************************************)
(* C4.  For each (runtime instance, method name) a callable is created at  *)
(* most once; while the runtime is alive the callable created for it stays *)
(* in the cache under its key, and every get of the key returns the entry  *)
(* of the cache.                                                           *)
(***************************************************************************)
C4_CreatedOnceAndKept ==
    /\ \A k \in Runtimes \X Names : created[k] <= 1
    /\ \A r \in alive, n \in Names :
          created[<<r, n>>] >= 1 =>
              /\ Has(functionCache[addrOf[r]], n)
              /\ functionCache[addrOf[r]][n].rt = r
    /\ \A t \in Runtimes :
          (Finished(t, "get") /\ ret[t].type = "function") =>
              /\ Has(functionCache[addrOf[t]], op[t].name)
              /\ ret[t].v = functionCache[addrOf[t]][op[t].name]

\* A background runtime gets, from the cache, the callable created for it
\* by its earlier get.
C4_Witness ==
    \E t \in BgRuntimes :
        /\ Finished(t, "get")
        /\ ret[t].type = "function"
        /\ ret[t].cached
        /\ ret[t].v.rt = t
        /\ created[<<t, op[t].name>>] = 1

C6_AliveIffRegistered ==
    \A id \in Runtimes :
        IsAlive(id) <=> (id = MainRuntime \/ guardLog[id].last = "register")

\* One runtime has been unregistered twice while another is registered.
C6_Witness ==
    \E r, q \in BgRuntimes :
        /\ guardLog[r].unregs = 2
        /\ guardLog[q].last = "register"
        /\ ~IsAlive(r)
        /\ IsAlive(q)

(***************************************************************************)
(* C7.  As stated: without override, a register* call throws whenever the  *)
(* name is already registered as a method, a getter or a setter.           *)
(***************************************************************************)
C7_AnyNamespaceConflictThrows ==
    (lastDecl # NoDecl /\ ~lastDecl.decl.override) =>
        ((lastDecl.before.method \/ lastDecl.before.getter \/ lastDecl.before.setter)
            => ~lastDecl.ok)

\* The kinds that cannot share a name: a method with anything, a getter with
\* a getter, a setter with a setter.
Collides(kind, before) ==
    \/ before.method
    \/ kind = "method" /\ (before.getter \/ before.setter)
    \/ kind = "getter" /\ before.getter
    \/ kind = "setter" /\ before.setter

(***************************************************************************)
(* C7, amended.  Without override, registerHybridMethod throws exactly     *)
(* when the name is already a method, a getter or a setter;                *)
(* registerHybridGetter exactly when it is already a getter or a method;   *)
(* registerHybridSetter exactly when it is already a setter or a method.   *)
(* Of two declarations of one name, the second succeeds or throws the same *)
(* whichever of the two is made first.                                     *)
(***************************************************************************)
C7_ConflictThrows ==
    /\ (lastDecl # NoDecl /\ ~lastDecl.decl.override) =>
          (~lastDecl.ok <=> Collides(lastDecl.decl.kind, lastDecl.before))
    /\ \A t \in Runtimes :
          (/\ pc[t] = "loading"
           /\ hookPos[t] = 2
           /\ hookProg[1].name = hookProg[2].name
           /\ ~hookProg[1].override
           /\ ~hookProg[2].override)
              => (lastDecl.ok <=> SecondSucceeds(hookProg[2], hookProg[1]))

\* A getter was refused because the name is a method.
C7_Witness ==
    /\ lastDecl # NoDecl
    /\ lastDecl.decl.kind = "getter"
    /\ lastDecl.before.method
    /\ ~lastDecl.before.getter
    /\ ~lastDecl.ok

(***************************************************************************)
(* C8.  After any declarations, overriding ones included, no name is both  *)
(* a method and a getter or setter.                                        *)
(***************************************************************************)
C8_MethodsAndPropertiesDisjoint ==
    \A n \in Names : ~(Has(methods, n) /\ (Has(getters, n) \/ Has(setters, n)))

(***************************************************************************)
(* C9.  get(name) returns a callable when the name is a method, the        *)
(* getter's result when it is a getter, and undefined when it is           *)
(* registered nowhere; in that last case no handler runs and no cache      *)
(* entry is made.                                                          *)
(***************************************************************************)
C9_ReadMember ==
    \A t \in Runtimes :
        Finished(t, "get") =>
            LET n == op[t].name IN
            /\ Has(methods, n) => ret[t].type = "function"
            /\ Has(getters, n) =>
                  /\ ret[t] = toJSI(FieldType(n), field[n])
                  /\ invoked[t] = <<getters[n]>>
            /\ ~IsRegistered(n) =>
                  /\ ret[t] = Undefined
                  /\ invoked[t] = << >>
                  /\ ~Has(functionCache[addrOf[t]], n)
                  /\ created[<<t, n>>] = 0

\* C9 for the registries in which no method shares its name with a property.
C9_ReadMemberUniqueNames == C8_MethodsAndPropertiesDisjoint => C9_ReadMember

(***************************************************************************)
(* C10.  set(name, value) invokes the setter of the name once, with the    *)
(* converted value, when the name is a setter; when the name is a method,  *)
(* a getter without a setter, or unknown, it invokes no handler and leaves *)
(* the registry and the callable cache as they were.                       *)
(***************************************************************************)
C10_SetterInvoked ==
    \A t \in Runtimes :
        Finished(t, "set") =>
            LET n == op[t].name IN
            /\ (Has(setters, n) /\ CanConvert(FieldType(n), op[t].value)) =>
                  /\ invoked[t] = <<setters[n]>>
                  /\ field[n] = op[t].value.v
            /\ (Has(methods, n) \/ ~Has(setters, n)) => invoked[t] = << >>

C10_FrameOfUnhandled ==
    \A t \in Runtimes :
        (/\ pc[t] = "lookup"
         /\ pc'[t] = "ret"
         /\ op'[t].kind = "set"
         /\ (Has(methods, op'[t].name) \/ ~Has(setters, op'[t].name)))
            => UNCHANGED <<methods, getters, setters, didLoadMethods, functionCache>>

C10_WriteMember == []C10_SetterInvoked /\ [][C10_FrameOfUnhandled]_vars

\* C10 for the registries in which no method shares its name with a property.
C10_WriteMemberUniqueNames ==
    [](C8_MethodsAndPropertiesDisjoint => C10_SetterInvoked) /\ [][C10_FrameOfUnhandled]_vars

Called(t) ==
    /\ Finished(t, "call")
    /\ Len(op[t].args) >= Len(ParamTypes(op[t].f.name))

\* Every supplied argument that callMethod converts has the parameter's type.
ArgsConvert(t) ==
    \A i \in 1..Len(ParamTypes(op[t].f.name)) :
        CanConvert(ParamTypes(op[t].f.name)[i], op[t].args[i])

(***************************************************************************)
(* C13.  Invoking the callable of a declared method calls the native       *)
(* handler exactly once, with the converted arguments, and returns its     *)
(* converted result: getAge with no argument yields 23, a void method      *)
(* yields undefined after storing its converted argument.                  *)
(***************************************************************************)
C13_MethodInvoked ==
    \A t \in Runtimes :
        (Called(t) /\ ArgsConvert(t)) =>
            LET n == op[t].f.name IN
            /\ invoked[t] = <<op[t].f.fn>>
            /\ n = "getAge" => ret[t] = ScriptValue("number", 23)
            /\ ReturnType(n) = "void" =>
                  /\ ret[t] = Undefined
                  /\ field[n] = op[t].args[1].v

\* getAge has been called with no argument and is about to return 23.
C13_Witness ==
    /\ Finished(MainRuntime, "call")
    /\ op[MainRuntime].f.name = "getAge"
    /\ op[MainRuntime].args = << >>
    /\ ret[MainRuntime] = ScriptValue("number", 23)

(***************************************************************************)
(* C14.  A method callable or a setter invoked with an argument whose      *)
(* runtime type is not the parameter's type fails with TypeConversionError *)
(* returned to the caller; the native handler is not invoked and the       *)
(* native state stays as it was.                                           *)
(***************************************************************************)
C14_ErrorReturned ==
    \A t \in Runtimes :
        /\ (/\ Called(t)
            /\ \E i \in 1..Len(ParamTypes(op[t].f.name)) :
                  op[t].args[i].type # ParamTypes(op[t].f.name)[i]) =>
              /\ ret[t] = [type |-> "error", v |-> "TypeConversionError"]
              /\ invoked[t] = << >>
        /\ (/\ Finished(t, "set")
            /\ Has(setters, op[t].name)
            /\ op[t].value.type # FieldType(op[t].name)) =>
              /\ ret[t] = [type |-> "error", v |-> "TypeConversionError"]
              /\ invoked[t] = << >>

C14_NativeStateKept ==
    \A t \in Runtimes :
        (/\ pc[t] \in {"lookup", "callMethod"}
         /\ pc'[t] = "ret"
         /\ ret'[t].type = "error")
            => UNCHANGED <<field, written>>

C14_TypeConversionError == []C14_ErrorReturned /\ [][C14_NativeStateKept]_vars

\* The method that takes a string was called with a number and returns the
\* error.
C14_Witness ==
    /\ Finished(MainRuntime, "call")
    /\ ParamTypes(op[MainRuntime].f.name) = <<"string">>
    /\ op[MainRuntime].args = <<ScriptValue("number", 1)>>
    /\ ret[MainRuntime].type = "error"

(***************************************************************************)
(* C15.  Once loadHybridMethods() has completed, no step of any runtime -  *)
(* a get, a set, a getPropertyNames or the invocation of a callable - adds,*)
(* removes or replaces an entry of _methods, _getters or _setters, and the *)
(* object stays loaded.                                                    *)
(***************************************************************************)
C15_RegistryFrozen ==
    [][didLoadMethods => (didLoadMethods' /\ UNCHANGED <<methods, getters, setters>>)]_vars

\* After the declaration a background runtime has read a method and invoked
\* its callable.
C15_Witness ==
    /\ didLoadMethods
    /\ \E t \in BgRuntimes : Finished(t, "call") /\ invoked[t] # << >>

(***************************************************************************)
(* C16.  No native handler - of a callable, a getter or a setter - runs    *)
(* while the invoking thread holds _mutex: a thread that is at, or takes,  *)
(* the step that runs a handler does not hold the mutex, so handlers of    *)
(* different runtimes run side by side and never wait for the mutex.       *)
(***************************************************************************)
C16_NotHeldAtHandler ==
    \A t \in Runtimes : pc[t] \in {"invoke", "callMethod"} => mutex # t

C16_HandlerStep ==
    \A t \in Runtimes :
        Len(invoked'[t]) > Len(invoked[t]) => (mutex # t /\ mutex' # t)

C17_FrameNeverOnReleasedSwapChain ==
    lastFrame # "invalid"

\* C18: once every updateRenderCallback call has settled, at most one frame
\* callback listener of the view is registered on the choreographer; it is the
\* listener of the call with the latest token and it is the one stored in
\* renderCallbackListener, whatever the order in which overlapping calls
\* completed.
C18_OneListenerAfterSettling ==
    Pending = {} =>
        /\ Cardinality(listeners) <= 1
        /\ listeners \subseteq {latestToken}
        /\ listeners \subseteq {renderCallbackListener}

\* Two calls overlapped, both have settled, and the listener of the later one
\* is the one that is registered.
C18_Witness ==
    /\ Pending = {}
    /\ overlapped
    /\ listeners = {latestToken}
    /\ renderCallbackListener = latestToken

\* C19: cleanupResources may run more than once for one surface, from
\* onSurfaceDestroyed and from componentWillUnmount in either order; each swap
\* chain the view created is released at most once across all such calls.
C19_ReleasedAtMostOnce ==
    \A c \in Chains : released[c] <= 1

\* After a swap chain was stored, cleanupResources has run from
\* componentWillUnmount and from onSurfaceDestroyed, and the swap chain has
\* been released once.
C19_Witness ==
    /\ cleanupCalls = {"componentWillUnmount", "onSurfaceDestroyed"}
    /\ engineChain # NoChain
    /\ released[engineChain] = 1

\* C20: if the surface is destroyed after an onSurfaceCreated call has started
\* and before that call's worklet runs, the worklet creates no swap chain and
\* the call stores none (so it neither calls engine.setSwapChain nor
\* updateRenderCallback).
C20_NoSwapChainAfterDestroy ==
    [][\A i \in SurfCalls :
          (surf[i].hit /\ surf'[i].stage = "resolved") => surf'[i].chain = NoChain]_vars

\* C21: updateRenderCallback starts the choreographer only after the latest
\* successful attachment. A step that starts the stopped choreographer is the
\* resolution of a call that finds the component mounted, the surface alive
\* and its token the latest, and that stores its listener as
\* renderCallbackListener; the resolution of a superseded call, or of a call
\* that cleanupResources has run since it began, leaves the choreographer as
\* it is.
C21_StartOnlyAfterLatestAttachment ==
    [][/\ (~running /\ running') =>
             \E tok \in Tokens :
                 /\ upd[tok].stage = "registered" /\ upd'[tok].stage = "done"
                 /\ isComponentMounted /\ isSurfaceAlive
                 /\ tok = latestToken
                 /\ renderCallbackListener' = tok
       /\ \A tok \in Tokens :
             ( /\ upd[tok].stage = "registered" /\ upd'[tok].stage = "done"
               /\ (tok # latestToken \/ upd[tok].cleaned) )
             => running' = running]_vars

\* C22: a callable created for a background runtime that has been destroyed is
\* never returned to a runtime instance created later, also when the later
\* instance lives at the address that keyed the destroyed one's cache entry.
C22_NoCallableOfDestroyedRuntime ==
    \A t \in BgRuntimes :
        (Finished(t, "get") /\ ret[t].type = "function") =>
            ~ ( /\ ret[t].v.rt \in BgRuntimes
                /\ ret[t].v.rt < t
                /\ ret[t].v.rt \notin alive
                /\ addrOf[ret[t].v.rt] = addrOf[t] )

\* C23: a registerHybridMethod, registerHybridGetter or registerHybridSetter
\* call that throws for a name conflict leaves _methods, _getters and _setters
\* exactly as they were: nothing is inserted and nothing is changed.
C23_FailedDeclareChangesNothing ==
    [][((\E t \in Runtimes : hookPos'[t] = hookPos[t] + 1) /\ ~lastDecl'.ok)
          => UNCHANGED <<methods, getters, setters>>]_vars

\* A method was refused because the name is a getter, with one name
\* registered before the call.
C23_Witness ==
    /\ lastDecl # NoDecl
    /\ lastDecl.decl.kind = "method"
    /\ lastDecl.before.getter
    /\ ~lastDecl.ok
    /\ ~Has(methods, lastDecl.decl.name)
    /\ Has(getters, lastDecl.decl.name)

\* No asynchronous step of the view is pending: no worklet is queued, no
\* promise waits for its continuation, no surface notification is under way.
Quiet ==
    /\ workletQ = <<>>
    /\ Pending = {}
    /\ \A i \in SurfCalls : surf[i].stage \in {"none", "done"}
    /\ viewReady # "finding"
    /\ events = <<>>

\* C24: once the surface has been destroyed or the component unmounted, and
\* every pending step has settled, every swap chain onSurfaceCreated created
\* has been released and none is stored.
C24_EverySwapChainReleased ==
    (Quiet /\ (viewPhase = "unmounted" \/ ~surface)) =>
        /\ swapChain = NoChain
        /\ \A c \in Chains : c < nextChain => released[c] >= 1

\* C25: after componentWillUnmount has run and every asynchronous step that
\* was pending (onViewReady, onSurfaceCreated, updateRenderCallback) has
\* settled, no frame callback listener and no surface created/destroyed
\* listener of the view is registered.
C25_NoListenerAfterUnmount ==
    (viewPhase = "unmounted" /\ Quiet) =>
        /\ listeners = {}
        /\ ~surfaceListeners

\* The component unmounted while onSurfaceCreated waited for its swap chain;
\* that call and the updateRenderCallback it made have settled, and the
\* listener it registered is gone.
C25_Witness ==
    /\ viewPhase = "unmounted"
    /\ Quiet
    /\ swapChain # NoChain
    /\ latestToken >= 1
    /\ upd[latestToken].stage = "done"
    /\ upd[latestToken].chain = swapChain
    /\ listeners = {}

\* C26: a call of a method callable with fewer arguments than the method has
\* parameters never reads an argument position beyond the supplied count: the
\* call ends in an error (a missing position, taken as undefined, converts to
\* no parameter type of the example object) and the native handler does not
\* run with a value the caller never passed.
C26_NoReadBeyondCount ==
    \A t \in Runtimes :
        (/\ Finished(t, "call")
         /\ Len(op[t].args) < Len(ParamTypes(op[t].f.name))) =>
            ret[t].type = "error"

====
